---- MODULE Spec2Model ----
(***************************************************************************)
(* A model of SignedDataVerifier (the Deno port of the App Store Server    *)
(* Library): construction, the generic verifyJWT pipeline and the four     *)
(* typed entry points with their identity checks.                          *)
(***************************************************************************)
EXTENDS Integers, Sequences, FiniteSets, TLC

(***************************************************************************)
(* Bounds of the model.                                                    *)
(***************************************************************************)
\* the longest input, counted in '.'-separated parts
MaxParts == 4
\* the longest x5c array a header carries
MaxChain == 4
\* the calls in flight at once on one verifier, where calls overlap
MaxCalls == 2
\* how often the clock advances
MaxTicks == 2

(***************************************************************************)
(* The constants of the public-key cache (lines 15-16).                    *)
(***************************************************************************)
MAXIMUM_CACHE_SIZE == 32
CACHE_TIME_LIMIT == 15 * 60 * 1000

(***************************************************************************)
(* JavaScript values.  A value is a record tagged with its kind; numbers   *)
(* are kept as numerals, since the code only compares them with ===.       *)
(***************************************************************************)
Undefined == [ty |-> "undefined", v |-> "undefined"]
Null == [ty |-> "null", v |-> "null"]
Str(s) == [ty |-> "string", v |-> s]
\* a string the code inspects character by character: a sequence of characters
Text(chars) == [ty |-> "string", c |-> chars]
Num(n) == [ty |-> "number", v |-> n]
Obj(fields) == [ty |-> "object", f |-> fields]
Arr(elems) == [ty |-> "array", a |-> elems]

\* the typeof operator
TypeOf(x) == IF x.ty \in {"null", "array"} THEN "object" ELSE x.ty

\* whether reading a property of x throws a TypeError
AccessThrows(x) == x.ty \in {"undefined", "null"}

\* x[k] for a value x that is neither null nor undefined
Get(x, k) ==
  IF x.ty = "object" /\ k \in DOMAIN x.f THEN x.f[k] ELSE Undefined

\* ToBoolean(x), for the values of the model
Truthy(x) ==
  CASE x.ty \in {"undefined", "null"} -> FALSE
    [] x.ty = "string" -> IF "c" \in DOMAIN x THEN x.c # <<>> ELSE x.v # ""
    [] x.ty = "number" -> x.v # "0"
    [] OTHER -> TRUE

(***************************************************************************)
(* The Environment enumeration (models/Environment.ts).                    *)
(***************************************************************************)
SANDBOX == "Sandbox"
PRODUCTION == "Production"
XCODE == "Xcode"
LOCAL_TESTING == "LocalTesting"
Environment == {SANDBOX, PRODUCTION, XCODE, LOCAL_TESTING}

(***************************************************************************)
(* The input string.  It is a sequence of characters of two kinds: the     *)
(* delimiter '.', and segments, each standing for a maximal run of         *)
(* characters other than '.'.  A segment records what decoding it yields:  *)
(* whether it is valid base64url, whether the decoded text is JSON, the    *)
(* JSON value, and (for a signature) whose private key produced it.        *)
(***************************************************************************)
Dot == [k |-> "dot"]
Seg(val) == [k |-> "seg", b64 |-> TRUE, json |-> TRUE, val |-> val, signer |-> "none"]
GarbageSeg == [k |-> "seg", b64 |-> FALSE, json |-> FALSE, val |-> Undefined, signer |-> "none"]
TextSeg == [k |-> "seg", b64 |-> TRUE, json |-> FALSE, val |-> Undefined, signer |-> "none"]
SigSeg(key) == [k |-> "seg", b64 |-> TRUE, json |-> FALSE, val |-> Undefined, signer |-> key]

\* jwt.split('.', 3): a split that stops after three parts
SplitLimit3(s) ==
  LET RECURSIVE All(_)
      All(t) ==
        IF t = <<>> THEN << <<>> >>
        ELSE IF Head(t) = Dot THEN << <<>> >> \o All(Tail(t))
        ELSE LET r == All(Tail(t)) IN << <<Head(t)>> \o r[1] >> \o Tail(r)
      parts == All(s)
  IN IF Len(parts) > 3 THEN SubSeq(parts, 1, 3) ELSE parts

\* jwt.split('.'): the parts between the delimiters; "" splits into one empty part
RECURSIVE Split(_)
Split(s) ==
  IF s = <<>> THEN << <<>> >>
  ELSE IF Head(s) = Dot THEN << <<>> >> \o Split(Tail(s))
  ELSE LET r == Split(Tail(s)) IN << <<Head(s)>> \o r[1] >> \o Tail(r)

\* parts.join('.'), used to build the inputs
RECURSIVE Join(_)
Join(parts) ==
  IF parts = <<>> THEN <<>>
  ELSE IF Len(parts) = 1 THEN parts[1]
  ELSE parts[1] \o <<Dot>> \o Join(Tail(parts))

\* decode(part) of std/encoding/base64url throws on a string that is no base64url
Base64UrlDecodeThrows(part) == part # <<>> /\ ~part[1].b64

\* JSON.parse(text) throws a SyntaxError on a text that is no JSON
\* (the empty string included)
JSONParseThrows(part) == part = <<>> \/ ~part[1].json

\* JSON.parse(new TextDecoder().decode(decode(part))) when nothing throws
DecodedJSON(part) == part[1].val

(***************************************************************************)
(* Certificates, as the base64 strings of an x5c array.  A certificate     *)
(* names its subject and its issuer, carries its validity window           *)
(* (notBefore..notAfter, in ms), and ocsp tells what a revocation lookup   *)
(* for it would answer: "good", "revoked" or "unreachable".                *)
(***************************************************************************)
Cert(subject, issuer) ==
  [ty |-> "string", v |-> subject, b64 |-> TRUE, issuer |-> issuer,
   notBefore |-> 0, notAfter |-> 10000000, ocsp |-> "good"]
BadCert ==
  [ty |-> "string", v |-> "%%", b64 |-> FALSE, issuer |-> "none",
   notBefore |-> 0, notAfter |-> 10000000, ocsp |-> "good"]

AppleRoot == Cert("AppleRoot", "AppleRoot")
AppleInt == Cert("AppleInt", "AppleRoot")
AppleLeaf == Cert("AppleLeaf", "AppleInt")
EvilRoot == Cert("EvilRoot", "EvilRoot")
EvilInt == Cert("EvilInt", "EvilRoot")
EvilLeaf == Cert("EvilLeaf", "EvilInt")
\* certificates of the pinned root's chain that are expired, not yet valid,
\* revoked, or whose revocation status cannot be fetched
ExpiredLeaf == [Cert("ExpiredLeaf", "AppleInt") EXCEPT !.notAfter = 500]
NotYetValidInt == [Cert("AppleInt", "AppleRoot") EXCEPT !.notBefore = 5000000]
RevokedLeaf == [Cert("RevokedLeaf", "AppleInt") EXCEPT !.ocsp = "revoked"]
RevokedInt == [Cert("AppleInt", "AppleRoot") EXCEPT !.ocsp = "revoked"]
UnreachableLeaf == [Cert("UnreachableLeaf", "AppleInt") EXCEPT !.ocsp = "unreachable"]

\* the trust anchors a verifier is constructed with
RootCertificateSets == {{"AppleRoot"}}

\* atob(cert) throws on a string that is no base64
AtobThrows(cert) == ~cert.b64

(***************************************************************************)
(* The structural validators.  A validator answers "true" or "false", or   *)
(* throws a TypeError when it reads a property of null.                    *)
(***************************************************************************)
\* the checked fields of each payload shape, in the order of the checks:
\* <<field, typeof expected>> or <<field, shape of the nested validator>>
DataFields ==
  << <<"environment", "string">>, <<"appAppleId", "number">>,
     <<"bundleId", "string">>, <<"bundleVersion", "string">>,
     <<"signedTransactionInfo", "string">>, <<"signedRenewalInfo", "string">>,
     <<"status", "number">>, <<"consumptionRequestReason", "string">> >>
SummaryFields ==
  << <<"environment", "string">>, <<"appAppleId", "number">>,
     <<"bundleId", "string">> >>
ExternalPurchaseTokenFields ==
  << <<"externalPurchaseId", "string">>, <<"tokenCreationDate", "number">>,
     <<"appAppleId", "number">>, <<"bundleId", "string">> >>
ResponseBodyV2DecodedPayloadFields ==
  << <<"notificationType", "string">>, <<"subtype", "string">>,
     <<"notificationUUID", "string">>, <<"data", "Data">>,
     <<"version", "string">>, <<"signedDate", "number">>,
     <<"summary", "Summary">>,
     <<"externalPurchaseToken", "ExternalPurchaseToken">> >>
JWSTransactionDecodedPayloadFields ==
  << <<"bundleId", "string">>, <<"environment", "string">>,
     <<"signedDate", "number">> >>
JWSRenewalInfoDecodedPayloadFields ==
  << <<"environment", "string">>, <<"signedDate", "number">> >>
AppTransactionFields ==
  << <<"receiptType", "string">>, <<"appAppleId", "number">>,
     <<"bundleId", "string">>, <<"receiptCreationDate", "number">> >>

Fields(shape) ==
  CASE shape = "Data" -> DataFields
    [] shape = "Summary" -> SummaryFields
    [] shape = "ExternalPurchaseToken" -> ExternalPurchaseTokenFields
    [] shape = "ResponseBodyV2DecodedPayload" -> ResponseBodyV2DecodedPayloadFields
    [] shape = "JWSTransactionDecodedPayload" -> JWSTransactionDecodedPayloadFields
    [] shape = "JWSRenewalInfoDecodedPayload" -> JWSRenewalInfoDecodedPayloadFields
    [] shape = "AppTransaction" -> AppTransactionFields

\* validate(obj) of the validator of a shape: the checks of the fields from
\* the i-th on; each is skipped when typeof obj[field] is 'undefined'
RECURSIVE ValidateFrom(_, _, _)
ValidateFrom(obj, shape, i) ==
  IF AccessThrows(obj) THEN "throw"
  ELSE IF i > Len(Fields(shape)) THEN "true"
  ELSE LET x == Get(obj, Fields(shape)[i][1])
           kind == Fields(shape)[i][2]
           r == IF TypeOf(x) = "undefined" THEN "true"
                ELSE IF kind \in {"string", "number"}
                     THEN (IF TypeOf(x) = kind THEN "true" ELSE "false")
                     ELSE ValidateFrom(x, kind, 1)
       IN  IF r = "true" THEN ValidateFrom(obj, shape, i + 1) ELSE r

Validate(obj, shape) == ValidateFrom(obj, shape, 1)

(***************************************************************************)
(* Exceptions and settled results.                                         *)
(***************************************************************************)
\* VerificationStatus
VerificationStatus ==
  {"OK", "VERIFICATION_FAILURE", "INVALID_APP_IDENTIFIER", "INVALID_ENVIRONMENT",
   "INVALID_CHAIN_LENGTH", "INVALID_CERTIFICATE", "FAILURE"}

\* new VerificationException(status, cause); cause names the exception kept
\* as cause, "none" when there is none
VerificationException(status, cause) ==
  [class |-> "VerificationException", status |-> status, cause |-> cause]
\* an exception of another class (TypeError, SyntaxError, DOMException)
RawError(class) == [class |-> class, status |-> "none", cause |-> "none"]
NoException == [class |-> "none", status |-> "none", cause |-> "none"]

\* how an exception reads as the cause of another
CauseOf(e) ==
  IF e.class = "VerificationException" THEN "VerificationException:" \o e.status
  ELSE e.class

\* the result of a call: it returned value, threw exc, or is suspended at the
\* await of verifyCertificateChain with the arguments args
Returned(value) ==
  [kind |-> "return", exc |-> NoException, value |-> value]
Thrown(e) == [kind |-> "throw", exc |-> e, value |-> Undefined]
NoResult == [kind |-> "none", exc |-> NoException, value |-> Undefined]

(***************************************************************************)
(* verifyJWT.                                                              *)
(***************************************************************************)
\* new Date(), and new Date(ms)
Now == [ty |-> "date", v |-> "now"]
DateOf(ms) == [ty |-> "date", v |-> ms.v]

\* extractSignedDate, and the extractor verifyAndDecodeAppTransaction passes
extractSignedDate(decodedJWT) ==
  IF Get(decodedJWT, "signedDate") = Undefined THEN Now
  ELSE DateOf(Get(decodedJWT, "signedDate"))
extractReceiptCreationDate(t) ==
  IF Get(t, "receiptCreationDate") = Undefined THEN Now
  ELSE DateOf(Get(t, "receiptCreationDate"))
\* every entry point passing extractSignedDate
signedDateExtractorOfSignedDate(shape, decodedJWT) == extractSignedDate(decodedJWT)

\* the extractor verifyJWT is called with, by the validator it comes with
signedDateExtractor(shape, decodedJWT) ==
  IF shape = "AppTransaction" THEN extractReceiptCreationDate(decodedJWT)
  ELSE extractSignedDate(decodedJWT)

\* chain.length of  headerObj['x5c'] ?? []  ; -1 stands for undefined
ChainLength(x5c) ==
  CASE x5c.ty \in {"undefined", "null"} -> 0
    [] x5c.ty = "array" -> Len(x5c.a)
    [] x5c.ty = "string" /\ "c" \in DOMAIN x5c -> Len(x5c.c)
    [] OTHER -> -1

\* an inner catch that drops what it caught
InnerCatchWithoutCause(e) == VerificationException("VERIFICATION_FAILURE", "none")

\* the catch of the inner try (lines 235-238): everything thrown while the
\* header and the chain are handled is wrapped as VERIFICATION_FAILURE
InnerCatch(e) == VerificationException("VERIFICATION_FAILURE", CauseOf(e))

\* an outer catch that lets every exception through as it is
OuterCatchRethrows(e) == e

\* the catch of the outer try (lines 239-244)
OuterCatch(e) ==
  IF e.class = "VerificationException" THEN e
  ELSE VerificationException("FAILURE", CauseOf(e))

\* the arguments of the verifyCertificateChain call (lines 221-226)
ChainArgs(trustedRoots, leaf, intermediate, effectiveDate) ==
  [trustedRoots |-> trustedRoots, leaf |-> leaf,
   intermediate |-> intermediate, effectiveDate |-> effectiveDate]
NoChainArgs == [trustedRoots |-> {}]

\* lines 199-226: the inner try up to the await; what it throws, or "await"
InnerTry(roots, parts, shape, decodedJWT) ==
  IF Base64UrlDecodeThrows(parts[1])
  THEN [kind |-> "throw", exc |-> RawError("TypeError"), args |-> NoChainArgs]
  ELSE IF JSONParseThrows(parts[1])
  THEN [kind |-> "throw", exc |-> RawError("SyntaxError"), args |-> NoChainArgs]
  ELSE LET headerObj == DecodedJSON(parts[1]) IN
    IF AccessThrows(headerObj)
    THEN [kind |-> "throw", exc |-> RawError("TypeError"), args |-> NoChainArgs]
    ELSE LET chain == Get(headerObj, "x5c") IN
      IF ChainLength(chain) # 3
      THEN [kind |-> "throw",
            exc |-> VerificationException("INVALID_CHAIN_LENGTH", "none"),
            args |-> NoChainArgs]
      ELSE IF chain.ty # "array"
      THEN \* chain.slice(0, 2).map is not a function
           [kind |-> "throw", exc |-> RawError("TypeError"), args |-> NoChainArgs]
      ELSE IF AtobThrows(chain.a[1]) \/ AtobThrows(chain.a[2])
      THEN [kind |-> "throw", exc |-> RawError("DOMException"), args |-> NoChainArgs]
      ELSE [kind |-> "await", exc |-> NoException,
            args |-> ChainArgs(roots, chain.a[1], chain.a[2],
                               signedDateExtractor(shape, decodedJWT))]

\* a bypass for XCODE alone
SkipsVerificationXcodeOnly(env) == env = XCODE

\* whether verifyJWT returns the unverified payload (line 193)
SkipsVerification(env) == env = XCODE \/ env = LOCAL_TESTING

\* a step of verifyJWT that ends it, or suspends it: [kind, exc, value, args]
Settled(r) ==
  [kind |-> r.kind, exc |-> r.exc, value |-> r.value, args |-> NoChainArgs]

\* lines 193-238: the bypass decision, then the inner try
AfterValidate(env, roots, parts, shape, decodedJWT) ==
  IF SkipsVerification(env) THEN Settled(Returned(decodedJWT))
  ELSE LET t == InnerTry(roots, parts, shape, decodedJWT) IN
    IF t.kind = "throw"
    THEN Settled(Thrown(OuterCatch(InnerCatch(t.exc))))
    ELSE [kind |-> "await", exc |-> NoException, value |-> decodedJWT,
          args |-> t.args]

\* the bypass decision taken before the structural validator is asked
BypassBeforeValidate(env, roots, parts, shape, decodedJWT) ==
  IF SkipsVerification(env) THEN Settled(Returned(decodedJWT))
  ELSE LET valid == Validate(decodedJWT, shape) IN
    IF valid = "throw" THEN Settled(Thrown(OuterCatch(RawError("TypeError"))))
    ELSE IF valid = "false"
    THEN Settled(Thrown(OuterCatch(VerificationException("FAILURE", "none"))))
    ELSE AfterValidate(env, roots, parts, shape, decodedJWT)

\* lines 189-238: the structural validator, then the rest
ValidateAndVerify(env, roots, parts, shape, decodedJWT) ==
  LET valid == Validate(decodedJWT, shape) IN
  IF valid = "throw" THEN Settled(Thrown(OuterCatch(RawError("TypeError"))))
  ELSE IF valid = "false"
  THEN Settled(Thrown(OuterCatch(VerificationException("FAILURE", "none"))))
  ELSE AfterValidate(env, roots, parts, shape, decodedJWT)

\* lines 182-238, on the parts of the input
verifyJWTParts(env, roots, parts, shape) ==
  IF Len(parts) # 3
  THEN Settled(Thrown(OuterCatch(VerificationException("FAILURE", "none"))))
  ELSE IF Base64UrlDecodeThrows(parts[2])
  THEN Settled(Thrown(OuterCatch(RawError("TypeError"))))
  ELSE IF JSONParseThrows(parts[2])
  THEN Settled(Thrown(OuterCatch(RawError("SyntaxError"))))
  ELSE ValidateAndVerify(env, roots, parts, shape, DecodedJSON(parts[2]))

\* verifyJWT from its first line to its first suspension (the await of
\* verifyCertificateChain) or to its end
verifyJWTStart(env, roots, jwt, shape) ==
  verifyJWTParts(env, roots, Split(jwt), shape)

\* verifyCertificateChain (lines 247-264): whatever its arguments, it resolves
\* to the public key of a freshly generated key pair
MockPublicKey == [ty |-> "CryptoKey", v |-> "generated"]
verifyCertificateChainResult(args) == Returned(MockPublicKey)

\* a verifyJWT that returns the payload without its signedDate
verifyJWTResumeDropsSignedDate(chainResult, decodedJWT) ==
  IF chainResult.kind = "throw"
  THEN Thrown(OuterCatch(InnerCatch(chainResult.exc)))
  ELSE IF decodedJWT.ty = "object"
  THEN Returned(Obj([k \in DOMAIN decodedJWT.f \ {"signedDate"} |-> decodedJWT.f[k]]))
  ELSE Returned(decodedJWT)

\* verifyJWT after the await (lines 221-233): the public key is not used, the
\* signature (the third part) is not looked at, the payload is returned
verifyJWTResume(chainResult, decodedJWT) ==
  IF chainResult.kind = "throw"
  THEN Thrown(OuterCatch(InnerCatch(chainResult.exc)))
  ELSE Returned(decodedJWT)

(***************************************************************************)
(* The identity checks of the typed entry points, applied to what          *)
(* verifyJWT returned.  Each gives the settled result of the entry point.  *)
(***************************************************************************)
\* In the operators below, this is the verifier: a record of its fields
\* bundleId, appAppleId and environment.

\* the checks of lines 86-92 with the environment tested first
TransactionChecksEnvironmentFirst(this, decodedJWT) ==
  IF Get(decodedJWT, "environment") # Str(this.environment)
  THEN Thrown(VerificationException("INVALID_ENVIRONMENT", "none"))
  ELSE IF Get(decodedJWT, "bundleId") # this.bundleId
  THEN Thrown(VerificationException("INVALID_APP_IDENTIFIER", "none"))
  ELSE Returned(decodedJWT)

\* lines 86-92
TransactionChecks(this, decodedJWT) ==
  IF Get(decodedJWT, "bundleId") # this.bundleId
  THEN Thrown(VerificationException("INVALID_APP_IDENTIFIER", "none"))
  ELSE IF Get(decodedJWT, "environment") # Str(this.environment)
  THEN Thrown(VerificationException("INVALID_ENVIRONMENT", "none"))
  ELSE Returned(decodedJWT)

\* an entry point that returns what verifyJWT returned, unchecked
RenewalInfoUnchecked(this, decodedRenewalInfo) == Returned(decodedRenewalInfo)

\* lines 105-109
RenewalInfoChecks(this, decodedRenewalInfo) ==
  IF Str(this.environment) # Get(decodedRenewalInfo, "environment")
  THEN Thrown(VerificationException("INVALID_ENVIRONMENT", "none"))
  ELSE Returned(decodedRenewalInfo)

\* String.prototype.includes
Includes(x, prefix) ==
  /\ "c" \in DOMAIN x
  /\ \E i \in 1..(Len(x.c) - Len(prefix) + 1) :
       SubSeq(x.c, i, i + Len(prefix) - 1) = prefix

\* String.prototype.startsWith
StartsWith(x, prefix) ==
  /\ "c" \in DOMAIN x
  /\ Len(x.c) >= Len(prefix)
  /\ SubSeq(x.c, 1, Len(prefix)) = prefix

\* the identity fields taken from summary before data
NotificationIdentitySummaryFirst(decodedJWT) ==
  LET data == Get(decodedJWT, "data")
      summary == Get(decodedJWT, "summary")
  IN
  IF Truthy(summary)
  THEN [appAppleId |-> Get(summary, "appAppleId"),
        bundleId |-> Get(summary, "bundleId"),
        environment |-> Get(summary, "environment")]
  ELSE IF Truthy(data)
  THEN [appAppleId |-> Get(data, "appAppleId"), bundleId |-> Get(data, "bundleId"),
        environment |-> Get(data, "environment")]
  ELSE [appAppleId |-> Undefined, bundleId |-> Undefined,
        environment |-> Undefined]

\* lines 122-141: the identity fields taken from the notification
NotificationIdentity(decodedJWT) ==
  LET data == Get(decodedJWT, "data")
      summary == Get(decodedJWT, "summary")
      token == Get(decodedJWT, "externalPurchaseToken")
  IN
  IF Truthy(data)
  THEN [appAppleId |-> Get(data, "appAppleId"), bundleId |-> Get(data, "bundleId"),
        environment |-> Get(data, "environment")]
  ELSE IF Truthy(summary)
  THEN [appAppleId |-> Get(summary, "appAppleId"),
        bundleId |-> Get(summary, "bundleId"),
        environment |-> Get(summary, "environment")]
  ELSE IF Truthy(token)
  THEN [appAppleId |-> Get(token, "appAppleId"),
        bundleId |-> Get(token, "bundleId"),
        environment |->
          IF Truthy(Get(token, "externalPurchaseId"))
             /\ StartsWith(Get(token, "externalPurchaseId"),
                           <<"S", "A", "N", "D", "B", "O", "X">>)
          THEN Str(SANDBOX) ELSE Str(PRODUCTION)]
  ELSE [appAppleId |-> Undefined, bundleId |-> Undefined,
        environment |-> Undefined]

\* a verifyNotification without its environment test
verifyNotificationIdentifiersOnly(this, id) ==
  IF this.bundleId # id.bundleId
     \/ (this.environment = PRODUCTION /\ this.appAppleId # id.appAppleId)
  THEN VerificationException("INVALID_APP_IDENTIFIER", "none")
  ELSE NoException

\* a verifyNotification that compares appAppleId in every environment
verifyNotificationAlwaysChecksAppAppleId(this, id) ==
  IF this.bundleId # id.bundleId \/ this.appAppleId # id.appAppleId
  THEN VerificationException("INVALID_APP_IDENTIFIER", "none")
  ELSE IF Str(this.environment) # id.environment
  THEN VerificationException("INVALID_ENVIRONMENT", "none")
  ELSE NoException

\* a verifyNotification that lets absent values pass
verifyNotificationAcceptsAbsent(this, id) ==
  IF id.bundleId # Undefined
     /\ (this.bundleId # id.bundleId
         \/ (this.environment = PRODUCTION /\ this.appAppleId # id.appAppleId))
  THEN VerificationException("INVALID_APP_IDENTIFIER", "none")
  ELSE IF id.environment # Undefined /\ Str(this.environment) # id.environment
  THEN VerificationException("INVALID_ENVIRONMENT", "none")
  ELSE NoException

\* lines 146-153: the exception verifyNotification throws, NoException if
\* none; id holds the bundleId, appAppleId and environment it is called with
verifyNotification(this, id) ==
  IF this.bundleId # id.bundleId
     \/ (this.environment = PRODUCTION /\ this.appAppleId # id.appAppleId)
  THEN VerificationException("INVALID_APP_IDENTIFIER", "none")
  ELSE IF Str(this.environment) # id.environment
  THEN VerificationException("INVALID_ENVIRONMENT", "none")
  ELSE NoException

\* lines 122-143
NotificationChecks(this, decodedJWT) ==
  LET e == verifyNotification(this, NotificationIdentity(decodedJWT))
  IN IF e # NoException THEN Thrown(e) ELSE Returned(decodedJWT)

\* the checks of an app transaction done as those of a transaction are
AppTransactionChecksBundleIdOnly(this, decodedAppTransaction) ==
  IF this.bundleId # Get(decodedAppTransaction, "bundleId")
  THEN Thrown(VerificationException("INVALID_APP_IDENTIFIER", "none"))
  ELSE IF Str(this.environment) # Get(decodedAppTransaction, "receiptType")
  THEN Thrown(VerificationException("INVALID_ENVIRONMENT", "none"))
  ELSE Returned(decodedAppTransaction)

\* the checks of lines 165-172 with the environment tested first
AppTransactionChecksEnvironmentFirst(this, decodedAppTransaction) ==
  IF Str(this.environment) # Get(decodedAppTransaction, "receiptType")
  THEN Thrown(VerificationException("INVALID_ENVIRONMENT", "none"))
  ELSE IF this.bundleId # Get(decodedAppTransaction, "bundleId")
          \/ (this.environment = PRODUCTION
              /\ this.appAppleId # Get(decodedAppTransaction, "appAppleId"))
  THEN Thrown(VerificationException("INVALID_APP_IDENTIFIER", "none"))
  ELSE Returned(decodedAppTransaction)

\* lines 165-172
AppTransactionChecks(this, decodedAppTransaction) ==
  LET env == Get(decodedAppTransaction, "receiptType") IN
  IF this.bundleId # Get(decodedAppTransaction, "bundleId")
     \/ (this.environment = PRODUCTION
         /\ this.appAppleId # Get(decodedAppTransaction, "appAppleId"))
  THEN Thrown(VerificationException("INVALID_APP_IDENTIFIER", "none"))
  ELSE IF Str(this.environment) # env
  THEN Thrown(VerificationException("INVALID_ENVIRONMENT", "none"))
  ELSE Returned(decodedAppTransaction)

(***************************************************************************)
(* The inputs of the model.                                                *)
(***************************************************************************)
BundleIds == {Str("com.example"), Str("com.other")}
AppAppleIds == {Undefined, Num("1")}

\* a payload with the identity fields on its top level (transaction,
\* renewal info, app transaction); a field holding Undefined is an absent field
Flat(b, a, e, r) ==
  Obj([bundleId |-> b, appAppleId |-> a, environment |-> e, receiptType |-> r])
Dated(b, a, e, ms) ==
  Obj([bundleId |-> b, appAppleId |-> a, environment |-> e, receiptType |-> e,
       signedDate |-> ms, receiptCreationDate |-> ms])
\* the sub-objects of a notification
Ident(b, a, e) == Obj([bundleId |-> b, appAppleId |-> a, environment |-> e])
Token(b, a, id) == Obj([bundleId |-> b, appAppleId |-> a, externalPurchaseId |-> id])
Notification(d, s, t) ==
  Obj([notificationUUID |-> Str("uuid"), data |-> d, summary |-> s,
       externalPurchaseToken |-> t])

Example == Str("com.example")
Other == Str("com.other")

\* payloads tried with every header
CorePayloads ==
  { Flat(Example, Num("1"), Str(PRODUCTION), Str(PRODUCTION)),
    Flat(Example, Num("1"), Str(SANDBOX), Str(SANDBOX)),
    Flat(Other, Num("1"), Str(PRODUCTION), Str(PRODUCTION)),
    Flat(Example, Num("1"), Str(XCODE), Str(XCODE)),
    Dated(Example, Num("1"), Str(SANDBOX), Num("1000")),
    Flat(Num("7"), Num("1"), Str(SANDBOX), Str(SANDBOX)),
    Notification(Ident(Example, Num("1"), Str(PRODUCTION)), Undefined, Undefined),
    Notification(Ident(Example, Undefined, Str(SANDBOX)), Undefined, Undefined) }

FlatPayloads ==
  { Flat(b, a, Str(e), Str(e)) : b \in BundleIds, a \in AppAppleIds, e \in Environment }
  \cup
  { Flat(Example, Num("2"), Str(PRODUCTION), Str(PRODUCTION)),
    Flat(Example, Num("2"), Str(SANDBOX), Str(SANDBOX)),
    Flat(Example, Num("1"), Str(PRODUCTION), Str(SANDBOX)),
    Flat(Example, Num("1"), Str(SANDBOX), Str(PRODUCTION)),
    Flat(Example, Num("1"), Str(XCODE), Str(PRODUCTION)),
    Flat(Undefined, Num("1"), Str(SANDBOX), Str(SANDBOX)),
    Flat(Example, Num("1"), Undefined, Undefined),
    Flat(Example, Str("1"), Str(SANDBOX), Str(SANDBOX)),
    Dated(Example, Num("1"), Str(PRODUCTION), Num("1000")),
    Dated(Example, Num("1"), Str(PRODUCTION), Str("yesterday")),
    Obj([bundleId |-> Example, appAppleId |-> Num("1"), environment |-> Str(SANDBOX),
         receiptType |-> Str(SANDBOX), signedDate |-> Num("1000")]),
    Obj([bundleId |-> Example, appAppleId |-> Num("1"), environment |-> Str(SANDBOX),
         receiptType |-> Str(SANDBOX), receiptCreationDate |-> Num("1000")]) }

NotificationPayloads ==
  { Notification(Ident(b, a, Str(e)), Undefined, Undefined) :
      b \in BundleIds, a \in AppAppleIds, e \in {PRODUCTION, SANDBOX} }
  \cup
  { Notification(Ident(Example, Num("2"), Str(PRODUCTION)), Undefined, Undefined),
    Notification(Ident(Example, Num("1"), Str(XCODE)), Undefined, Undefined),
    Notification(Ident(Example, Undefined, Str(LOCAL_TESTING)), Undefined, Undefined),
    Notification(Undefined, Ident(Example, Num("1"), Str(PRODUCTION)), Undefined),
    Notification(Undefined, Ident(Example, Num("1"), Str(SANDBOX)), Undefined),
    Notification(Undefined, Ident(Other, Num("1"), Str(PRODUCTION)), Undefined),
    Notification(Undefined, Ident(Example, Num("1"), Str(XCODE)), Undefined),
    Notification(Undefined, Undefined,
                 Token(Example, Num("1"), Text(<<"S", "A", "N", "D", "B", "O", "X", "_", "1">>))),
    Notification(Undefined, Undefined,
                 Token(Example, Num("1"), Text(<<"S", "A", "N", "D">>))),
    Notification(Undefined, Undefined,
                 Token(Example, Num("1"), Text(<<"1", "S", "A", "N", "D", "B", "O", "X">>))),
    Notification(Undefined, Undefined, Token(Example, Num("1"), Text(<<>>))),
    Notification(Undefined, Undefined, Token(Example, Num("1"), Undefined)),
    Notification(Undefined, Undefined,
                 Token(Other, Num("1"), Text(<<"S", "A", "N", "D", "B", "O", "X">>))),
    Notification(Undefined, Undefined, Token(Example, Num("2"), Undefined)),
    Notification(Undefined, Undefined, Token(Example, Num("1"), Num("5"))),
    Notification(Ident(Example, Num("1"), Str(PRODUCTION)),
                 Ident(Other, Num("2"), Str(SANDBOX)), Undefined),
    Notification(Ident(Other, Num("2"), Str(SANDBOX)),
                 Ident(Example, Num("1"), Str(PRODUCTION)), Undefined),
    Notification(Undefined, Ident(Example, Num("1"), Str(SANDBOX)),
                 Token(Example, Num("1"), Undefined)),
    Notification(Undefined, Undefined, Undefined),
    Notification(Null, Undefined, Undefined),
    Notification(Num("5"), Ident(Example, Num("1"), Str(PRODUCTION)), Undefined),
    Notification(Num("0"), Ident(Example, Num("1"), Str(PRODUCTION)), Undefined),
    Notification(Ident(Example, Num("1"), Num("3")), Undefined, Undefined),
    Obj([notificationUUID |-> Num("9"),
         data |-> Ident(Example, Num("1"), Str(PRODUCTION))]) }

\* JSON values that are no objects
PrimitivePayloads == {Null, Num("5")}

Payloads ==
  CorePayloads \cup FlatPayloads \cup NotificationPayloads \cup PrimitivePayloads

\* the payload segments: the JSON payloads, a segment that is no base64url,
\* and a base64url segment that holds no JSON
CorePayloadSegs == {Seg(p) : p \in CorePayloads}
PayloadSegs == {Seg(p) : p \in Payloads} \cup {GarbageSeg, TextSeg}

\* an x5c array of n certificates, the first three leading to the pinned root
FullChain(n) ==
  Arr([i \in 1..n |->
        IF i = 1 THEN AppleLeaf ELSE IF i = 2 THEN AppleInt ELSE AppleRoot])
Header(alg, x5c) == Obj([alg |-> Str(alg), x5c |-> x5c])

CoreHeaders ==
  { Header("ES256", FullChain(3)),
    Header("ES256", Arr(<<EvilLeaf, EvilInt, EvilRoot>>)),
    Header("ES256", FullChain(2)) }

Headers ==
  CoreHeaders
  \cup { Header("ES256", FullChain(n)) : n \in 0..MaxChain }
  \cup { Header("ES256", Undefined),
         Header("ES256", Arr(<<EvilLeaf, AppleInt, AppleRoot>>)),
         Header("ES256", Arr(<<AppleLeaf, EvilInt, EvilRoot>>)),
         Header("ES256", Arr(<<BadCert, AppleInt, AppleRoot>>)),
         Header("ES256", Arr(<<ExpiredLeaf, AppleInt, AppleRoot>>)),
         Header("ES256", Arr(<<AppleLeaf, NotYetValidInt, AppleRoot>>)),
         Header("ES256", Arr(<<RevokedLeaf, AppleInt, AppleRoot>>)),
         Header("ES256", Arr(<<AppleLeaf, RevokedInt, AppleRoot>>)),
         Header("ES256", Arr(<<UnreachableLeaf, AppleInt, AppleRoot>>)),
         Header("none", FullChain(3)),
         Header("ES256", Text(<<"a", "b", "c">>)),
         Header("ES256", Num("3")),
         Null }

CoreHeaderSegs == {Seg(h) : h \in CoreHeaders}
HeaderSegs == {Seg(h) : h \in Headers} \cup {GarbageSeg, TextSeg}

\* the leaf certificate a header segment names, if any
HasLeaf(hseg) ==
  /\ hseg.json
  /\ ~AccessThrows(hseg.val)
  /\ Get(hseg.val, "x5c").ty = "array"
  /\ Len(Get(hseg.val, "x5c").a) >= 1
LeafOf(hseg) == Get(hseg.val, "x5c").a[1]

\* the signatures tried with a header: by nobody's key, by the Evil leaf's
\* key, and by the key of the leaf the header names
SigSegsFor(hseg) ==
  {SigSeg("nobody"), SigSeg("EvilLeaf")}
  \cup (IF HasLeaf(hseg) THEN {SigSeg(LeafOf(hseg).v)} ELSE {})

\* inputs with three parts
ThreePartTokens ==
  UNION { { Join(<< <<h>>, <<p>>, <<g>> >>) :
              p \in CorePayloadSegs, g \in SigSegsFor(h) } : h \in HeaderSegs }
  \cup
  UNION { { Join(<< <<h>>, <<p>>, <<g>> >>) :
              p \in PayloadSegs, g \in SigSegsFor(h) } : h \in CoreHeaderSegs }

\* inputs with any number of parts up to MaxParts, each part empty or not
GoodPart(i) ==
  IF i = 1 THEN <<Seg(Header("ES256", FullChain(3)))>>
  ELSE IF i = 2
  THEN <<Seg(Flat(Example, Num("1"), Str(SANDBOX), Str(SANDBOX)))>>
  ELSE <<SigSeg("AppleLeaf")>>
PartCountTokens ==
  UNION { { Join([i \in 1..n |-> IF i \in full THEN GoodPart(i) ELSE <<>>]) :
              full \in SUBSET (1..n) } : n \in 0..MaxParts }

Tokens == ThreePartTokens \cup PartCountTokens

(***************************************************************************)
(* AppStoreServerAPIClient.makeRequest (deno_index.ts).                    *)
(***************************************************************************)
\* the body of a response, by what response.json() makes of it: it resolves
\* with the value val, or rejects with a SyntaxError
JsonBody(val) == [json |-> TRUE, val |-> val]
NoJsonBody == [json |-> FALSE, val |-> Undefined]

\* a Response: ok is true for the statuses 200 to 299
Response(status, body) ==
  [status |-> status, ok |-> (status >= 200 /\ status <= 299), body |-> body]
NoResponse == [status |-> 0, ok |-> FALSE, body |-> NoJsonBody]

\* new APIException(httpStatusCode, apiError, errorMessage); a parameter that
\* is undefined takes its default, null
APIException(httpStatusCode, apiError, errorMessage) ==
  [class |-> "APIException", httpStatusCode |-> httpStatusCode,
   apiError |-> IF apiError = Undefined THEN Null ELSE apiError,
   errorMessage |-> IF errorMessage = Undefined THEN Null ELSE errorMessage]

\* new Error(message)
Error(message) == [class |-> "Error", message |-> message]

\* the validators passed to makeRequest, and the field each one tests
Validator(name) == [ty |-> "validator", v |-> name]
ValidatedField(validator) ==
  CASE validator.v = "MassExtendRenewalDateResponseValidator" -> "requestIdentifier"
    [] validator.v = "SendTestNotificationResponseValidator" -> "testNotificationToken"

\* validator.validate(responseBody): "true", "false", or "throw"
ValidateResponse(validator, responseBody) ==
  IF AccessThrows(responseBody) THEN "throw"
  ELSE IF TypeOf(Get(responseBody, ValidatedField(validator))) \in {"undefined", "string"}
  THEN "true"
  ELSE "false"

\* lines 148-154: a response that is OK, with a validator, once
\* response.json() has settled
OkResponse(validator, response) ==
  IF ~response.body.json THEN Thrown(RawError("SyntaxError"))
  ELSE LET responseBody == response.body.val
           valid == ValidateResponse(validator, responseBody)
       IN IF valid = "throw" THEN Thrown(RawError("TypeError"))
          ELSE IF valid = "false"
          THEN Thrown(Error("Unexpected response body format"))
          ELSE Returned(responseBody)

\* the handling of a response that is not OK without its try and catch
ErrorResponseUncaught(response) ==
  IF ~response.body.json THEN Thrown(RawError("SyntaxError"))
  ELSE LET responseBody == response.body.val IN
    IF AccessThrows(responseBody) THEN Thrown(RawError("TypeError"))
    ELSE LET errorCode == Get(responseBody, "errorCode")
             errorMessage == Get(responseBody, "errorMessage")
         IN IF Truthy(errorCode)
            THEN Thrown(APIException(response.status, errorCode, errorMessage))
            ELSE Thrown(APIException(response.status, Undefined, Undefined))

\* lines 158-175: a response that is not OK, once response.json() has
\* settled; what is thrown inside the try and is no APIException is replaced
\* by the catch with an APIException of the status alone
ErrorResponse(response) ==
  IF ~response.body.json
  THEN Thrown(APIException(response.status, Undefined, Undefined))
  ELSE LET responseBody == response.body.val IN
    IF AccessThrows(responseBody)
    THEN Thrown(APIException(response.status, Undefined, Undefined))
    ELSE LET errorCode == Get(responseBody, "errorCode")
             errorMessage == Get(responseBody, "errorMessage")
         IN IF Truthy(errorCode)
            THEN Thrown(APIException(response.status, errorCode, errorMessage))
            ELSE Thrown(APIException(response.status, Undefined, Undefined))

\* the request passed to fetch (lines 125-141, 179-183)
FetchRequest(method, body) ==
  [method |-> method,
   body |-> IF body.ty \in {"null", "undefined"} THEN Undefined ELSE body,
   contentType |-> IF body.ty \in {"null", "undefined"} THEN "none"
                   ELSE "application/json"]
NoFetchRequest == [method |-> "none", body |-> Undefined, contentType |-> "none"]

\* the makeRequest call: where it stands (pc), its validator, what it passed
\* to fetch, the response, whether response.json() was called, how it settled
IdleRequest ==
  [pc |-> "idle", validator |-> Null, sent |-> NoFetchRequest,
   received |-> FALSE, response |-> NoResponse, bodyUsed |-> FALSE,
   result |-> NoResult]

(***************************************************************************)
(* The state: the verifier's fields, and the calls of its entry points.    *)
(***************************************************************************)
VARIABLES
  constructed,             \* "no", "yes", or "threw": what new SignedDataVerifier did
  rootCertificates,
  enableOnlineChecks,
  bundleId,
  appAppleId,
  environment,
  verifiedPublicKeyCache,  \* the CacheValues held, each with its key
  calls,                   \* the calls of the entry points, by call slot
  now,                     \* the clock, in ms
  request                  \* the makeRequest call of the API client

vars ==
  <<constructed, rootCertificates, enableOnlineChecks, bundleId, appAppleId,
    environment, verifiedPublicKeyCache, calls, now, request>>

config ==
  <<constructed, rootCertificates, enableOnlineChecks, bundleId, appAppleId,
    environment>>

\* a call slot: the entry point called and its input; where the call stands
\* (pc); the payload verifyJWT decoded; the arguments verifyCertificateChain
\* was called with; how verifyJWT settled; how the entry point settled; the
\* clock when the call was made (at), the calls that had settled by then, and
\* the clock when the entry point settled (settledAt)
IdleCall ==
  [pc |-> "idle", entry |-> "none", jwt |-> <<>>, decodedJWT |-> Undefined,
   args |-> NoChainArgs, jwtResult |-> NoResult, result |-> NoResult,
   at |-> 0, settledBefore |-> {}, settledAt |-> 0]

\* new CacheValue(publicKey, cacheExpiry), stored under key
CacheValue(key, publicKey, cacheExpiry) ==
  [key |-> key, publicKey |-> publicKey, cacheExpiry |-> cacheExpiry]

\* a verifyJWT that stores the key of a chain before the chain is validated
CachesBeforeValidation(cache, r, t) ==
  IF r.kind = "await"
  THEN cache \cup {CacheValue(<<r.args.leaf, r.args.intermediate>>,
                              MockPublicKey, t + CACHE_TIME_LIMIT)}
  ELSE cache

\* a verifyJWT that stores a key when it returns the payload unverified
CachesInBypass(cache, r, t) ==
  IF r.kind = "return"
  THEN cache \cup {CacheValue(<<Undefined, Undefined>>, MockPublicKey,
                              t + CACHE_TIME_LIMIT)}
  ELSE cache

\* this.verifiedPublicKeyCache after verifyJWT ran, at clock t, to its first
\* await or to its end with the outcome r: the code never writes to it
CacheAfterVerifyJWTStart(cache, r, t) == cache

\* the validator each entry point passes to verifyJWT
Shape(entry) ==
  CASE entry = "verifyAndDecodeTransaction" -> "JWSTransactionDecodedPayload"
    [] entry = "verifyAndDecodeRenewalInfo" -> "JWSRenewalInfoDecodedPayload"
    [] entry = "verifyAndDecodeNotification" -> "ResponseBodyV2DecodedPayload"
    [] entry = "verifyAndDecodeAppTransaction" -> "AppTransaction"

Init ==
  /\ constructed = "no"
  /\ rootCertificates = {}
  /\ enableOnlineChecks = FALSE
  /\ bundleId = Undefined
  /\ appAppleId = Undefined
  /\ environment = "none"
  /\ verifiedPublicKeyCache = {}
  /\ calls = [c \in {1} |-> IdleCall]
  /\ now = 0
  /\ request = IdleRequest

\* a constructor that wants an appAppleId in every environment
ConstructorThrowsWithoutAppAppleId(env, aid) == aid = Undefined

\* the constructor's test at line 71
ConstructorThrows(env, aid) == env = PRODUCTION /\ aid = Undefined

\* new SignedDataVerifier(appleRootCertificates, enableOnlineChecks,
\*                        environment, bundleId, appAppleId)
Constructor(roots, online, env, bid, aid) ==
  /\ constructed = "no"
  /\ rootCertificates' = roots
  /\ enableOnlineChecks' = online
  /\ bundleId' = bid
  /\ environment' = env
  /\ appAppleId' = aid
  /\ verifiedPublicKeyCache' = {}
  /\ constructed' = IF ConstructorThrows(env, aid) THEN "threw" ELSE "yes"
  /\ UNCHANGED <<calls, now, request>>

\* an entry point is called with an input jwt, one of tokens: verifyJWT runs
\* to its first await or to its end, and the entry point is suspended at its
\* own await of verifyJWT
CallWith(c, entry, tokens) ==
  /\ constructed = "yes"
  /\ calls[c].pc = "idle"
  /\ \E jwt \in tokens :
       \E r \in {verifyJWTStart(environment, rootCertificates, jwt, Shape(entry))} :
         /\ calls' = [calls EXCEPT ![c] =
              [pc |-> IF r.kind = "await" THEN "verifyCertificateChain"
                      ELSE "verifyJWT",
               entry |-> entry, jwt |-> jwt,
               decodedJWT |-> IF r.kind = "await" THEN r.value ELSE Undefined,
               args |-> r.args,
               jwtResult |-> IF r.kind = "await" THEN NoResult
                             ELSE [kind |-> r.kind, exc |-> r.exc, value |-> r.value],
               result |-> NoResult,
               at |-> now,
               settledBefore |-> {d \in DOMAIN calls : calls[d].pc = "done"},
               settledAt |-> 0]]
         /\ verifiedPublicKeyCache' =
              CacheAfterVerifyJWTStart(verifiedPublicKeyCache, r, now)
  /\ UNCHANGED <<config, now, request>>

Call(c, entry) == CallWith(c, entry, Tokens)

verifyAndDecodeTransaction(c) == Call(c, "verifyAndDecodeTransaction")
verifyAndDecodeRenewalInfo(c) == Call(c, "verifyAndDecodeRenewalInfo")
verifyAndDecodeNotification(c) == Call(c, "verifyAndDecodeNotification")
verifyAndDecodeAppTransaction(c) == Call(c, "verifyAndDecodeAppTransaction")

\* a verifyJWT whose decodedJWT is shared by the calls in flight: after the
\* await it returns the payload that any of them decoded
verifyCertificateChainSharedPayload(c) ==
  /\ calls[c].pc = "verifyCertificateChain"
  /\ \E d \in {x \in DOMAIN calls : calls[x].pc = "verifyCertificateChain"} :
       calls' = [calls EXCEPT ![c] =
         [@ EXCEPT !.pc = "verifyJWT",
                   !.jwtResult =
                      verifyJWTResume(verifyCertificateChainResult(calls[c].args),
                                      calls[d].decodedJWT)]]
  /\ UNCHANGED <<config, verifiedPublicKeyCache, now, request>>

\* the promise of verifyCertificateChain settles and verifyJWT runs to its end
verifyCertificateChain(c) ==
  /\ calls[c].pc = "verifyCertificateChain"
  /\ calls' = [calls EXCEPT ![c] =
       [@ EXCEPT !.pc = "verifyJWT",
                 !.jwtResult =
                    verifyJWTResume(verifyCertificateChainResult(calls[c].args),
                                    calls[c].decodedJWT)]]
  /\ UNCHANGED <<config, verifiedPublicKeyCache, now, request>>

\* the verifier, as the entry points read it
This ==
  [bundleId |-> bundleId, appAppleId |-> appAppleId, environment |-> environment]

\* entry points that accept a payload once: they reject one that a settled
\* call returned
IdentityChecksOnce(entry, decodedJWT) ==
  IF \E d \in DOMAIN calls :
       calls[d].pc = "done" /\ calls[d].result = Returned(decodedJWT)
  THEN Thrown(VerificationException("FAILURE", "none"))
  ELSE CASE entry = "verifyAndDecodeTransaction" -> TransactionChecks(This, decodedJWT)
         [] entry = "verifyAndDecodeRenewalInfo" -> RenewalInfoChecks(This, decodedJWT)
         [] entry = "verifyAndDecodeNotification" -> NotificationChecks(This, decodedJWT)
         [] entry = "verifyAndDecodeAppTransaction" ->
              AppTransactionChecks(This, decodedJWT)

\* the identity checks of an entry point on what verifyJWT returned
IdentityChecks(entry, decodedJWT) ==
  CASE entry = "verifyAndDecodeTransaction" -> TransactionChecks(This, decodedJWT)
    [] entry = "verifyAndDecodeRenewalInfo" -> RenewalInfoChecks(This, decodedJWT)
    [] entry = "verifyAndDecodeNotification" -> NotificationChecks(This, decodedJWT)
    [] entry = "verifyAndDecodeAppTransaction" ->
         AppTransactionChecks(This, decodedJWT)

\* the promise of verifyJWT settles and the entry point runs to its end: a
\* rejection goes on to the caller, a payload goes through the identity checks
Resume(c) ==
  /\ calls[c].pc = "verifyJWT"
  /\ calls' = [calls EXCEPT ![c] =
       [@ EXCEPT !.pc = "done",
                 !.settledAt = now,
                 !.result =
                    IF calls[c].jwtResult.kind = "throw" THEN calls[c].jwtResult
                    ELSE IdentityChecks(calls[c].entry, calls[c].jwtResult.value)]]
  /\ UNCHANGED <<config, verifiedPublicKeyCache, now, request>>

\* the caller has taken the settled result of call c: the slot is free for
\* the next call on the same verifier
Release(c) ==
  /\ calls[c].pc = "done"
  /\ calls' = [calls EXCEPT ![c] = IdleCall]
  /\ UNCHANGED <<config, verifiedPublicKeyCache, now, request>>

Next ==
  \/ \E roots \in RootCertificateSets, online \in BOOLEAN, env \in Environment,
        bid \in {Example}, aid \in AppAppleIds :
       Constructor(roots, online, env, bid, aid)
  \/ \E c \in DOMAIN calls : verifyAndDecodeTransaction(c)
  \/ \E c \in DOMAIN calls : verifyAndDecodeRenewalInfo(c)
  \/ \E c \in DOMAIN calls : verifyAndDecodeNotification(c)
  \/ \E c \in DOMAIN calls : verifyAndDecodeAppTransaction(c)
  \/ \E c \in DOMAIN calls : verifyCertificateChain(c)
  \/ \E c \in DOMAIN calls : Resume(c)
  \/ \E c \in DOMAIN calls : Release(c)

Spec == Init /\ [][Next]_vars

(***************************************************************************)
(* Overlapping calls and the clock.  MaxCalls calls are made on one        *)
(* verifier, each in a slot of its own, while the clock advances between   *)
(* their steps; the inputs are a few signed transactions.                  *)
(***************************************************************************)
\* time passes: a little less than CACHE_TIME_LIMIT at once
Tick ==
  /\ now < MaxTicks * (CACHE_TIME_LIMIT - 1)
  /\ now' = now + (CACHE_TIME_LIMIT - 1)
  /\ UNCHANGED <<config, verifiedPublicKeyCache, calls, request>>

TimedHeaders ==
  { Header("ES256", FullChain(3)),
    Header("ES256", FullChain(2)) }
TimedPayloads ==
  { Flat(Example, Num("1"), Str(SANDBOX), Str(SANDBOX)),
    Flat(Other, Num("1"), Str(SANDBOX), Str(SANDBOX)) }
\* every payload with the chain of three, one payload with the chain of two
TimedTokens ==
  { Join(<< <<Seg(x[1])>>, <<Seg(x[2])>>, <<SigSeg(LeafOf(Seg(x[1])).v)>> >>) :
      x \in { y \in TimedHeaders \X TimedPayloads :
                y[1] = Header("ES256", FullChain(3))
                \/ y[2] = Flat(Example, Num("1"), Str(SANDBOX), Str(SANDBOX)) } }

TimedInit ==
  /\ constructed = "no"
  /\ rootCertificates = {}
  /\ enableOnlineChecks = FALSE
  /\ bundleId = Undefined
  /\ appAppleId = Undefined
  /\ environment = "none"
  /\ verifiedPublicKeyCache = {}
  /\ calls = [c \in 1..MaxCalls |-> IdleCall]
  /\ now = 0
  /\ request = IdleRequest

TimedNext ==
  \/ \E roots \in RootCertificateSets, online \in BOOLEAN, env \in {SANDBOX, XCODE} :
       Constructor(roots, online, env, Example, Num("1"))
  \/ \E c \in DOMAIN calls : CallWith(c, "verifyAndDecodeTransaction", TimedTokens)
  \/ \E c \in DOMAIN calls : verifyCertificateChain(c)
  \/ \E c \in DOMAIN calls : Resume(c)
  \/ Tick

TimedSpec == TimedInit /\ [][TimedNext]_vars

(***************************************************************************)
(* The API client: one makeRequest call at a time, from the call to the    *)
(* settlement of its promise.                                              *)
(***************************************************************************)
Statuses == {200, 202, 400, 404, 500}

ResponseBodies ==
  { NoJsonBody,
    JsonBody(Null),
    JsonBody(Num("5")),
    JsonBody(Obj([errorCode |-> Num("4040010"),
                  errorMessage |-> Str("Transaction id not found.")])),
    JsonBody(Obj([errorCode |-> Num("4040010")])),
    JsonBody(Obj([errorCode |-> Num("0"), errorMessage |-> Str("zero")])),
    JsonBody(Obj([errorMessage |-> Str("no code")])),
    JsonBody(Obj([requestIdentifier |-> Str("id")])),
    JsonBody(Obj([requestIdentifier |-> Num("7")])) }

Responses == {Response(status, body) : status \in Statuses, body \in ResponseBodies}

Validators ==
  { Null, Validator("MassExtendRenewalDateResponseValidator"),
    Validator("SendTestNotificationResponseValidator") }

RequestBodies == {Null, Obj([productId |-> Str("com.example.product")])}

\* makeRequest is called: it builds headers, query and body and is suspended
\* at its await of makeFetchRequest (lines 125-142)
makeRequest(method, body, validator) ==
  /\ request.pc = "idle"
  /\ request' = [IdleRequest EXCEPT !.pc = "makeFetchRequest",
                                    !.validator = validator,
                                    !.sent = FetchRequest(method, body)]
  /\ UNCHANGED <<config, verifiedPublicKeyCache, calls, now>>

\* fetch resolves with a response (lines 142-159): an OK response without a
\* validator ends the call, every other response has its body read
makeFetchRequestResolves(response) ==
  /\ request.pc = "makeFetchRequest"
  /\ request' =
       IF response.ok /\ request.validator = Null
       THEN [request EXCEPT !.pc = "done", !.received = TRUE,
                            !.response = response, !.result = Returned(Null)]
       ELSE [request EXCEPT !.pc = "json", !.received = TRUE,
                            !.response = response, !.bodyUsed = TRUE]
  /\ UNCHANGED <<config, verifiedPublicKeyCache, calls, now>>

\* fetch rejects (no response): the rejection is that of makeRequest
makeFetchRequestRejects ==
  /\ request.pc = "makeFetchRequest"
  /\ request' = [request EXCEPT !.pc = "done",
                                !.result = Thrown(RawError("TypeError"))]
  /\ UNCHANGED <<config, verifiedPublicKeyCache, calls, now>>

\* response.json() settles and makeRequest runs to its end (lines 148-175)
responseJson ==
  /\ request.pc = "json"
  /\ request' = [request EXCEPT !.pc = "done",
                                !.result =
                                   IF request.response.ok
                                   THEN OkResponse(request.validator, request.response)
                                   ELSE ErrorResponse(request.response)]
  /\ UNCHANGED <<config, verifiedPublicKeyCache, calls, now>>

\* the caller has taken the settled result: the next request can be made
ReleaseRequest ==
  /\ request.pc = "done"
  /\ request' = IdleRequest
  /\ UNCHANGED <<config, verifiedPublicKeyCache, calls, now>>

ClientNext ==
  \/ \E method \in {"GET", "POST", "PUT"}, body \in RequestBodies,
        validator \in Validators :
       makeRequest(method, body, validator)
  \/ \E response \in Responses : makeFetchRequestResolves(response)
  \/ makeFetchRequestRejects
  \/ responseJson
  \/ ReleaseRequest

ClientSpec == Init /\ [][ClientNext]_vars

(***************************************************************************)
(* Properties.                                                             *)
(***************************************************************************)
\* the calls that are settled
DoneCalls == {c \in DOMAIN calls : calls[c].pc = "done"}

\* the number of parts of an input: one more than its delimiters
NumParts(jwt) == 1 + Cardinality({i \in 1..Len(jwt) : jwt[i] = Dot})

\* a settled call failed with a VerificationException of the given status
FailedWith(c, status) ==
  /\ calls[c].result.kind = "throw"
  /\ calls[c].result.exc.class = "VerificationException"
  /\ calls[c].result.exc.status = status

\* C1: new SignedDataVerifier throws exactly when the environment is
\* PRODUCTION and no appAppleId is given, and no entry point is ever called on
\* a verifier of that configuration; with every other configuration the
\* construction succeeds.
C1_ConstructorThrowsIffProductionWithoutAppAppleId ==
  /\ constructed # "no" =>
       (constructed = "threw" <=>
          (environment = PRODUCTION /\ appAppleId = Undefined))
  /\ (environment = PRODUCTION /\ appAppleId = Undefined) =>
       \A c \in DOMAIN calls : calls[c].pc = "idle"

C1_Witness ==
  constructed = "threw" /\ environment = PRODUCTION /\ appAppleId = Undefined

\* C7: an input that does not split on '.' into exactly 3 parts fails with
\* FAILURE in every environment; nothing is kept as cause, and
\* verifyCertificateChain is not called.
C7_WrongPartCountIsFailure ==
  \A c \in DoneCalls :
    NumParts(calls[c].jwt) # 3 =>
      /\ FailedWith(c, "FAILURE")
      /\ calls[c].result.exc.cause = "none"
      /\ calls[c].args = NoChainArgs

C7_Witness ==
  \E c \in DoneCalls :
    /\ NumParts(calls[c].jwt) = 4
    /\ \A i \in 1..4 : Split(calls[c].jwt)[i] # <<>>
    /\ FailedWith(c, "FAILURE")

\* C8: a 3-part input whose middle part is no base64url, or decodes to a text
\* that is no JSON, fails in every environment with a VerificationException of
\* status FAILURE that keeps the decode error as its cause.
C8_UndecodablePayloadIsFailure ==
  \A c \in DoneCalls :
    LET parts == Split(calls[c].jwt) IN
    (NumParts(calls[c].jwt) = 3
       /\ (Base64UrlDecodeThrows(parts[2]) \/ JSONParseThrows(parts[2]))) =>
      /\ FailedWith(c, "FAILURE")
      /\ calls[c].result.exc.cause \in {"TypeError", "SyntaxError"}
      /\ calls[c].args = NoChainArgs

C8_Witness ==
  \E c \in DoneCalls :
    /\ NumParts(calls[c].jwt) = 3
    /\ Split(calls[c].jwt)[2] = <<GarbageSeg>>
    /\ FailedWith(c, "FAILURE")
    /\ calls[c].result.exc.cause = "TypeError"

\* the environment is one in which the data is signed by the App Store
SignedEnvironment == environment \in {PRODUCTION, SANDBOX}
\* the environment is one of the two unsigned ones
UnsignedEnvironment == environment \in {XCODE, LOCAL_TESTING}

\* the input of call c has 3 parts, its middle part decodes to a JSON value,
\* and the validator of the entry point accepts that value
WellFormedPayload(c) ==
  LET parts == Split(calls[c].jwt) IN
  /\ NumParts(calls[c].jwt) = 3
  /\ ~Base64UrlDecodeThrows(parts[2])
  /\ ~JSONParseThrows(parts[2])
  /\ ValidateFrom(DecodedJSON(parts[2]), Shape(calls[c].entry), 1) = "true"
PayloadOf(c) == DecodedJSON(Split(calls[c].jwt)[2])

\* the header of call c decodes to an object
HeaderDecodes(c) ==
  LET h == Split(calls[c].jwt)[1] IN
  /\ ~Base64UrlDecodeThrows(h)
  /\ ~JSONParseThrows(h)
  /\ ~AccessThrows(DecodedJSON(h))
X5cOf(c) == Get(DecodedJSON(Split(calls[c].jwt)[1]), "x5c")

\* the leaf was issued by the intermediate and the intermediate by one of the
\* trusted roots
ChainLeadsToAnchor(args) ==
  /\ "leaf" \in DOMAIN args
  /\ args.leaf.issuer = args.intermediate.v
  /\ args.intermediate.issuer \in args.trustedRoots

\* the third part is a signature over the first two made with the private key
\* of the leaf certificate, with the algorithm of the App Store
SignatureVerifies(jwt) ==
  LET parts == Split(jwt) IN
  /\ Len(parts) = 3
  /\ parts[1] # <<>> /\ parts[3] # <<>>
  /\ HasLeaf(parts[1][1])
  /\ Get(parts[1][1].val, "alg") = Str("ES256")
  /\ parts[3][1].signer = LeafOf(parts[1][1]).v

\* C2: in PRODUCTION and SANDBOX, verifyJWT returns a payload only if the
\* leaf was issued by the intermediate and the intermediate by a pinned
\* root; a chain that does not lead to a pinned root ends the call with
\* VERIFICATION_FAILURE.
C2_OnlyChainsToPinnedRootsVerify ==
  \A c \in DoneCalls :
    SignedEnvironment =>
      /\ calls[c].jwtResult.kind = "return" => ChainLeadsToAnchor(calls[c].args)
      /\ ("leaf" \in DOMAIN calls[c].args /\ ~ChainLeadsToAnchor(calls[c].args)) =>
           FailedWith(c, "VERIFICATION_FAILURE")

\* C3: in PRODUCTION and SANDBOX, verifyJWT returns a payload only if the
\* signature verifies; otherwise the call ends with VERIFICATION_FAILURE or
\* an earlier failure.
C3_OnlyVerifiedSignaturesReturn ==
  \A c \in DoneCalls :
    SignedEnvironment =>
      (calls[c].jwtResult.kind = "return" => SignatureVerifies(calls[c].jwt))

\* C4: in PRODUCTION and SANDBOX, a 3-part input with a valid payload whose
\* header carries an x5c array of a length other than 3 (or none) fails with
\* status INVALID_CHAIN_LENGTH.
C4_WrongChainLengthIsInvalidChainLength ==
  \A c \in DoneCalls :
    (SignedEnvironment /\ WellFormedPayload(c) /\ HeaderDecodes(c)
       /\ X5cOf(c).ty \in {"undefined", "array"}
       /\ (X5cOf(c).ty = "array" => Len(X5cOf(c).a) # 3)) =>
      FailedWith(c, "INVALID_CHAIN_LENGTH")

\* the identity fields of a payload, as the entry point's shape names them
IdentityOf(entry, payload) ==
  CASE entry \in {"verifyAndDecodeTransaction", "verifyAndDecodeRenewalInfo"} ->
         [bundleId |-> Get(payload, "bundleId"),
          appAppleId |-> Get(payload, "appAppleId"),
          environment |-> Get(payload, "environment")]
    [] entry = "verifyAndDecodeNotification" -> NotificationIdentity(payload)
    [] entry = "verifyAndDecodeAppTransaction" ->
         [bundleId |-> Get(payload, "bundleId"),
          appAppleId |-> Get(payload, "appAppleId"),
          environment |-> Get(payload, "receiptType")]

\* C5: in XCODE and LOCAL_TESTING, a 3-part input with a valid payload whose
\* bundleId and environment are the configured ones is returned by every
\* entry point, whatever its header and its signature, and
\* verifyCertificateChain is not called.
C5_UnsignedEnvironmentsSkipVerification ==
  \A c \in DoneCalls :
    (UnsignedEnvironment /\ WellFormedPayload(c)
       /\ IdentityOf(calls[c].entry, PayloadOf(c)).bundleId = bundleId
       /\ IdentityOf(calls[c].entry, PayloadOf(c)).environment = Str(environment)) =>
      /\ calls[c].result = Returned(PayloadOf(c))
      /\ calls[c].args = NoChainArgs

C5_Witness ==
  \E c \in DoneCalls :
    /\ environment = XCODE
    /\ Split(calls[c].jwt)[1] = <<GarbageSeg>>
    /\ Split(calls[c].jwt)[3] = <<SigSeg("nobody")>>
    /\ calls[c].result.kind = "return"

\* C6: in XCODE and LOCAL_TESTING, a payload an entry point returns carries
\* the configured environment (receiptType for an app transaction, the
\* derived environment for a notification).
C6_UnsignedEnvironmentsCheckIdentity ==
  \A c \in DoneCalls :
    (UnsignedEnvironment /\ calls[c].result.kind = "return") =>
      IdentityOf(calls[c].entry, calls[c].result.value).environment
        = Str(environment)

C6_Witness ==
  \E c \in DoneCalls :
    /\ environment = LOCAL_TESTING
    /\ calls[c].entry = "verifyAndDecodeNotification"
    /\ calls[c].result.kind = "return"

\* C9: a payload the structural validator rejects, by answering false or by
\* throwing, fails with FAILURE in every environment, whatever the header
\* says, and verifyCertificateChain is not called.
C9_ValidatorRejectionIsFailure ==
  \A c \in DoneCalls :
    LET parts == Split(calls[c].jwt) IN
    (NumParts(calls[c].jwt) = 3
       /\ ~Base64UrlDecodeThrows(parts[2]) /\ ~JSONParseThrows(parts[2])
       /\ ValidateFrom(DecodedJSON(parts[2]), Shape(calls[c].entry), 1) # "true") =>
      /\ FailedWith(c, "FAILURE")
      /\ calls[c].args = NoChainArgs

C9_Witness ==
  \E c \in DoneCalls :
    /\ environment = XCODE
    /\ NumParts(calls[c].jwt) = 3
    /\ Split(calls[c].jwt)[2] # <<>>
    /\ Split(calls[c].jwt)[2][1].json
    /\ ValidateFrom(PayloadOf(c), Shape(calls[c].entry), 1) = "false"
    /\ FailedWith(c, "FAILURE")

\* the header of call c carries an x5c array of 3 entries
ChainOfThree(c) ==
  HeaderDecodes(c) /\ X5cOf(c).ty = "array" /\ Len(X5cOf(c).a) = 3

\* C10 as stated: a transaction with a valid payload (and, in PRODUCTION and
\* SANDBOX, an x5c of length 3) whose bundleId is not the configured one
\* fails with INVALID_APP_IDENTIFIER, whatever its signature.
C10_BundleIdMismatchAsStated ==
  \A c \in DoneCalls :
    (calls[c].entry = "verifyAndDecodeTransaction" /\ WellFormedPayload(c)
       /\ (SignedEnvironment => ChainOfThree(c))
       /\ Get(PayloadOf(c), "bundleId") # bundleId) =>
      FailedWith(c, "INVALID_APP_IDENTIFIER")

\* C10, amended: the same, for an x5c whose first two entries are base64.
C10_BundleIdMismatchIsInvalidAppIdentifier ==
  \A c \in DoneCalls :
    (calls[c].entry = "verifyAndDecodeTransaction" /\ WellFormedPayload(c)
       /\ (SignedEnvironment =>
             (ChainOfThree(c) /\ X5cOf(c).a[1].b64 /\ X5cOf(c).a[2].b64))
       /\ Get(PayloadOf(c), "bundleId") # bundleId) =>
      FailedWith(c, "INVALID_APP_IDENTIFIER")

C10_Witness ==
  \E c \in DoneCalls :
    /\ environment = PRODUCTION
    /\ calls[c].entry = "verifyAndDecodeTransaction"
    /\ WellFormedPayload(c)
    /\ ChainLeadsToAnchor(calls[c].args)
    /\ ~SignatureVerifies(calls[c].jwt)
    /\ Get(PayloadOf(c), "bundleId") = Other
    /\ Get(PayloadOf(c), "environment") # Str(environment)
    /\ FailedWith(c, "INVALID_APP_IDENTIFIER")

\* verifyJWT returned a payload to the entry point of call c
Verified(c) == calls[c].jwtResult.kind = "return"

\* the identifiers of the payload of call c are the configured ones: the
\* bundleId, and the appAppleId where the entry point compares it
IdentifiersMatch(c) ==
  LET id == IdentityOf(calls[c].entry, PayloadOf(c)) IN
  /\ id.bundleId = bundleId
  /\ (calls[c].entry \in {"verifyAndDecodeNotification",
                          "verifyAndDecodeAppTransaction"}
      /\ environment = PRODUCTION) => id.appAppleId = appAppleId

\* C11: every entry point answers INVALID_ENVIRONMENT for a payload that
\* verifyJWT returned, whose identifiers are the configured ones and whose
\* environment (receiptType, derived environment) is not the configured one.
C11_EnvironmentMismatchIsInvalidEnvironment ==
  \A c \in DoneCalls :
    (Verified(c) /\ IdentifiersMatch(c)
       /\ IdentityOf(calls[c].entry, PayloadOf(c)).environment # Str(environment)) =>
      FailedWith(c, "INVALID_ENVIRONMENT")

C11_Witness ==
  \E c \in DoneCalls :
    /\ environment = PRODUCTION
    /\ calls[c].entry = "verifyAndDecodeNotification"
    /\ Verified(c)
    /\ NotificationIdentity(PayloadOf(c)).bundleId = Example
    /\ NotificationIdentity(PayloadOf(c)).environment = Str(SANDBOX)
    /\ FailedWith(c, "INVALID_ENVIRONMENT")

\* C12: verifyAndDecodeRenewalInfo returns a payload only if its bundleId and
\* its environment are the configured ones, and answers
\* INVALID_APP_IDENTIFIER for a payload with another bundleId.
C12_RenewalInfoChecksBundleId ==
  \A c \in DoneCalls :
    calls[c].entry = "verifyAndDecodeRenewalInfo" =>
      /\ calls[c].result.kind = "return" =>
           /\ Get(calls[c].result.value, "bundleId") = bundleId
           /\ Get(calls[c].result.value, "environment") = Str(environment)
      /\ (Verified(c) /\ Get(PayloadOf(c), "bundleId") # bundleId) =>
           FailedWith(c, "INVALID_APP_IDENTIFIER")

\* C13: for a notification verifyJWT returned, the extracted bundleId must be
\* the configured one in every environment; the extracted appAppleId must be
\* the configured one exactly in PRODUCTION, where a mismatch is
\* INVALID_APP_IDENTIFIER; elsewhere any appAppleId is accepted when bundleId
\* and environment match.
C13_AppAppleIdComparedOnlyInProduction ==
  \A c \in DoneCalls :
    (calls[c].entry = "verifyAndDecodeNotification" /\ Verified(c)) =>
      LET id == NotificationIdentity(PayloadOf(c)) IN
      /\ id.bundleId # bundleId => FailedWith(c, "INVALID_APP_IDENTIFIER")
      /\ (environment = PRODUCTION /\ id.appAppleId # appAppleId) =>
           FailedWith(c, "INVALID_APP_IDENTIFIER")
      /\ (id.bundleId = bundleId /\ id.environment = Str(environment)
          /\ (environment = PRODUCTION => id.appAppleId = appAppleId)) =>
           calls[c].result = Returned(PayloadOf(c))

C13_Witness ==
  \E c \in DoneCalls :
    /\ environment = SANDBOX
    /\ appAppleId = Num("1")
    /\ calls[c].entry = "verifyAndDecodeNotification"
    /\ Verified(c)
    /\ NotificationIdentity(PayloadOf(c)).appAppleId = Undefined
    /\ calls[c].result.kind = "return"

\* the notification has an externalPurchaseToken and neither data nor summary
TokenOnly(payload) ==
  /\ ~Truthy(Get(payload, "data"))
  /\ ~Truthy(Get(payload, "summary"))
  /\ Truthy(Get(payload, "externalPurchaseToken"))

\* the string begins with the seven characters S A N D B O X
SandboxPrefixed(x) ==
  /\ x.ty = "string"
  /\ "c" \in DOMAIN x
  /\ Len(x.c) >= 7
  /\ x.c[1] = "S" /\ x.c[2] = "A" /\ x.c[3] = "N" /\ x.c[4] = "D"
  /\ x.c[5] = "B" /\ x.c[6] = "O" /\ x.c[7] = "X"

\* C14: a notification with only an externalPurchaseToken is checked against
\* SANDBOX when its externalPurchaseId begins with "SANDBOX" and against
\* PRODUCTION otherwise: it is returned only by a verifier of that
\* environment, and with matching identifiers every other verifier answers
\* INVALID_ENVIRONMENT.
C14_ExternalPurchaseTokenEnvironment ==
  \A c \in DoneCalls :
    (calls[c].entry = "verifyAndDecodeNotification" /\ Verified(c)
       /\ TokenOnly(PayloadOf(c))) =>
      LET token == Get(PayloadOf(c), "externalPurchaseToken")
          derived == IF SandboxPrefixed(Get(token, "externalPurchaseId"))
                     THEN SANDBOX ELSE PRODUCTION
      IN
      /\ calls[c].result.kind = "return" => environment = derived
      /\ (Get(token, "bundleId") = bundleId
          /\ (environment = PRODUCTION => Get(token, "appAppleId") = appAppleId)) =>
           IF environment = derived
           THEN calls[c].result = Returned(PayloadOf(c))
           ELSE FailedWith(c, "INVALID_ENVIRONMENT")

C14_Witness ==
  \E c \in DoneCalls :
    /\ environment = SANDBOX
    /\ calls[c].entry = "verifyAndDecodeNotification"
    /\ Verified(c)
    /\ TokenOnly(PayloadOf(c))
    /\ SandboxPrefixed(Get(Get(PayloadOf(c), "externalPurchaseToken"),
                           "externalPurchaseId"))
    /\ calls[c].result.kind = "return"

\* C15: the outcome of verifyAndDecodeAppTransaction on a payload verifyJWT
\* returned is the outcome of verifyNotification on the payload's bundleId,
\* appAppleId and receiptType.
C15_AppTransactionChecksAsNotification ==
  \A c \in DoneCalls :
    (calls[c].entry = "verifyAndDecodeAppTransaction" /\ Verified(c)) =>
      LET p == PayloadOf(c)
          e == verifyNotification(This,
                 [bundleId |-> Get(p, "bundleId"),
                  appAppleId |-> Get(p, "appAppleId"),
                  environment |-> Get(p, "receiptType")])
      IN calls[c].result = IF e = NoException THEN Returned(p) ELSE Thrown(e)

C15_Witness ==
  \E c \in DoneCalls :
    /\ environment = PRODUCTION
    /\ calls[c].entry = "verifyAndDecodeAppTransaction"
    /\ Verified(c)
    /\ Get(PayloadOf(c), "bundleId") = bundleId
    /\ Get(PayloadOf(c), "appAppleId") = Num("2")
    /\ appAppleId = Num("1")
    /\ FailedWith(c, "INVALID_APP_IDENTIFIER")

\* verifyCertificateChain was called for call c
InvokedChainValidation(c) == "leaf" \in DOMAIN calls[c].args

\* call c presents a chain of three whose first two entries are base64: the
\* (leaf, intermediate) pair the cache would be keyed with
PresentsChain(c) ==
  /\ calls[c].pc # "idle"
  /\ WellFormedPayload(c)
  /\ ChainOfThree(c)
  /\ X5cOf(c).a[1].b64 /\ X5cOf(c).a[2].b64
ChainKey(c) == <<X5cOf(c).a[1], X5cOf(c).a[2]>>

\* C16: in PRODUCTION and SANDBOX, when a call whose chain was validated has
\* settled and another call presents the same (leaf, intermediate) less than
\* CACHE_TIME_LIMIT later, verifyCertificateChain is not called again; when
\* every such earlier call settled more than CACHE_TIME_LIMIT before, it is.
C16_ChainValidatedOncePerTimeLimit ==
  \A c2 \in DOMAIN calls :
    (SignedEnvironment /\ PresentsChain(c2)) =>
      LET earlier == {c1 \in calls[c2].settledBefore :
                        /\ PresentsChain(c1) /\ Verified(c1)
                        /\ ChainKey(c1) = ChainKey(c2)}
      IN
      /\ (\E c1 \in earlier : calls[c2].at - calls[c1].at < CACHE_TIME_LIMIT) =>
           ~InvokedChainValidation(c2)
      /\ (\A c1 \in earlier :
            calls[c2].at - calls[c1].settledAt > CACHE_TIME_LIMIT) =>
           InvokedChainValidation(c2)

\* C17: in PRODUCTION and SANDBOX, once a call whose chain validation
\* succeeded has settled, the cache holds an entry under the call's
\* (leaf, intermediate) that expires CACHE_TIME_LIMIT after an instant of the
\* call, and the cache holds no more than MAXIMUM_CACHE_SIZE entries.
C17_ValidatedChainIsCached ==
  \A c \in DoneCalls :
    (SignedEnvironment /\ InvokedChainValidation(c) /\ Verified(c)) =>
      /\ \E e \in verifiedPublicKeyCache :
           /\ e.key = <<calls[c].args.leaf, calls[c].args.intermediate>>
           /\ e.cacheExpiry >= calls[c].at + CACHE_TIME_LIMIT
           /\ e.cacheExpiry <= calls[c].settledAt + CACHE_TIME_LIMIT
      /\ Cardinality(verifiedPublicKeyCache) <= MAXIMUM_CACHE_SIZE

Milliseconds(date, t) ==
  CASE date.v = "now" -> t
    [] date.v = "1000" -> 1000

\* the instant t lies in the validity window of the certificate
InValidityWindow(cert, t) == cert.notBefore <= t /\ t <= cert.notAfter

\* the effective date of call c lies in the windows of leaf and intermediate
ChainInValidityWindow(c) ==
  LET t == Milliseconds(calls[c].args.effectiveDate, calls[c].at) IN
  /\ InValidityWindow(calls[c].args.leaf, t)
  /\ InValidityWindow(calls[c].args.intermediate, t)

\* a settled call failed with VERIFICATION_FAILURE caused by INVALID_CERTIFICATE
FailedWithInvalidCertificate(c) ==
  /\ FailedWith(c, "VERIFICATION_FAILURE")
  /\ calls[c].result.exc.cause = "VerificationException:INVALID_CERTIFICATE"

\* C19: in PRODUCTION and SANDBOX, a call whose effective date lies outside
\* the validity window of its leaf or of its intermediate fails with
\* VERIFICATION_FAILURE caused by INVALID_CERTIFICATE, and returns no payload.
C19_ExpiredCertificatesFail ==
  \A c \in DoneCalls :
    (SignedEnvironment /\ InvokedChainValidation(c)
       /\ ~ChainInValidityWindow(c)) =>
      FailedWithInvalidCertificate(c)

\* what the revocation lookups for the chain of call c answer
Revoked(c) ==
  calls[c].args.leaf.ocsp = "revoked" \/ calls[c].args.intermediate.ocsp = "revoked"

\* C20: in PRODUCTION and SANDBOX with enableOnlineChecks, a call whose leaf
\* or intermediate is revoked fails with VERIFICATION_FAILURE caused by
\* INVALID_CERTIFICATE; a chain that is sound but for a lookup that cannot be
\* made is verified; without enableOnlineChecks a revocation changes nothing.
C20_RevokedCertificatesFail ==
  \A c \in DoneCalls :
    (SignedEnvironment /\ InvokedChainValidation(c)) =>
      /\ (enableOnlineChecks /\ Revoked(c)) => FailedWithInvalidCertificate(c)
      /\ (ChainLeadsToAnchor(calls[c].args) /\ ChainInValidityWindow(c)
          /\ SignatureVerifies(calls[c].jwt)
          /\ (enableOnlineChecks => ~Revoked(c))) =>
           Verified(c)

\* the exception the header or the chain of call c raises inside verifyJWT, in
\* an environment that verifies: "none" when they raise nothing
HeaderException(c) ==
  LET h == Split(calls[c].jwt)[1] IN
  IF Base64UrlDecodeThrows(h) THEN "TypeError"
  ELSE IF JSONParseThrows(h) THEN "SyntaxError"
  ELSE IF AccessThrows(DecodedJSON(h)) THEN "TypeError"
  ELSE IF ChainLength(X5cOf(c)) # 3 THEN "VerificationException:INVALID_CHAIN_LENGTH"
  ELSE IF X5cOf(c).ty # "array" THEN "TypeError"
  ELSE IF AtobThrows(X5cOf(c).a[1]) \/ AtobThrows(X5cOf(c).a[2]) THEN "DOMException"
  ELSE "none"

\* C21: every settled call of an entry point either returned a payload or
\* threw a VerificationException whose status is one of FAILURE,
\* INVALID_CHAIN_LENGTH, VERIFICATION_FAILURE, INVALID_CERTIFICATE,
\* INVALID_APP_IDENTIFIER and INVALID_ENVIRONMENT, never OK and never an
\* exception of another class; a failure that an exception raised inside
\* verifyJWT set off keeps that exception as its cause.
C21_OnlyVerificationExceptionsEscape ==
  \A c \in DoneCalls :
    /\ calls[c].result.kind \in {"return", "throw"}
    /\ calls[c].result.kind = "throw" =>
         /\ calls[c].result.exc.class = "VerificationException"
         /\ calls[c].result.exc.status \in VerificationStatus \ {"OK"}
    /\ (SignedEnvironment /\ WellFormedPayload(c) /\ HeaderException(c) # "none") =>
         /\ calls[c].result.kind = "throw"
         /\ calls[c].result.exc.cause = HeaderException(c)
    /\ (NumParts(calls[c].jwt) = 3 /\ ~Base64UrlDecodeThrows(Split(calls[c].jwt)[2])
        /\ ~JSONParseThrows(Split(calls[c].jwt)[2])
        /\ Validate(PayloadOf(c), Shape(calls[c].entry)) = "throw") =>
         /\ FailedWith(c, "FAILURE")
         /\ calls[c].result.exc.cause = "TypeError"

C21_Witness ==
  \E c \in DoneCalls :
    /\ SignedEnvironment
    /\ WellFormedPayload(c)
    /\ HeaderException(c) = "DOMException"
    /\ FailedWith(c, "VERIFICATION_FAILURE")
    /\ calls[c].result.exc.cause = "DOMException"

\* the environment the payload of call c names is the configured one
EnvironmentMatches(c) ==
  IdentityOf(calls[c].entry, PayloadOf(c)).environment = Str(environment)

\* the input of call c is a well-formed signed envelope: its payload is
\* accepted by the validator, its chain leads to a pinned root and is valid at
\* the effective date, and its signature was made with the key of the leaf
ValidEnvelope(c) ==
  /\ WellFormedPayload(c)
  /\ InvokedChainValidation(c)
  /\ ChainLeadsToAnchor(calls[c].args)
  /\ ChainInValidityWindow(c)
  /\ ~Revoked(c)
  /\ SignatureVerifies(calls[c].jwt)

\* C22: in PRODUCTION and SANDBOX, a call on a well-formed signed envelope
\* whose chain leads to a pinned root, whose signature is correct and whose
\* identity fields are the configured ones returns exactly the JSON object
\* of the middle part: same fields, same values.
C22_ValidEnvelopeReturnsPayloadUnchanged ==
  \A c \in DoneCalls :
    (SignedEnvironment /\ ValidEnvelope(c) /\ IdentifiersMatch(c)
       /\ EnvironmentMatches(c)) =>
      calls[c].result = Returned(PayloadOf(c))

C22_Witness ==
  \E c \in DoneCalls :
    /\ SignedEnvironment /\ ValidEnvelope(c) /\ IdentifiersMatch(c)
    /\ EnvironmentMatches(c)
    /\ Get(PayloadOf(c), "signedDate") # Undefined
    /\ calls[c].result = Returned(PayloadOf(c))

\* the field of the payload that dates it, by entry point
DateField(entry) ==
  IF entry = "verifyAndDecodeAppTransaction" THEN "receiptCreationDate"
  ELSE "signedDate"

PrioritySubObject(payload) ==
  IF Truthy(Get(payload, "data")) THEN Get(payload, "data")
  ELSE IF Truthy(Get(payload, "summary")) THEN Get(payload, "summary")
  ELSE Get(payload, "externalPurchaseToken")

\* how many of data, summary and externalPurchaseToken are populated
Populated(payload) ==
  Cardinality({k \in {"data", "summary", "externalPurchaseToken"} :
                 Truthy(Get(payload, k))})

\* C27: a notification that verifyJWT returned and in which more than one of
\* data, summary and externalPurchaseToken is populated is checked with the
\* bundleId and appAppleId of the first populated one in the order data,
\* summary, externalPurchaseToken (and with its environment, when that one is
\* data or summary); the others are not read: when the chosen sub-object
\* matches the configuration the notification is returned, when its
\* identifiers do not match the call fails with INVALID_APP_IDENTIFIER.
C27_NotificationSubObjectPriority ==
  \A c \in DoneCalls :
    (calls[c].entry = "verifyAndDecodeNotification" /\ Verified(c)
       /\ Populated(PayloadOf(c)) > 1) =>
      LET sub == PrioritySubObject(PayloadOf(c))
          identifiersMatch ==
            /\ Get(sub, "bundleId") = bundleId
            /\ environment = PRODUCTION => Get(sub, "appAppleId") = appAppleId
      IN /\ ~identifiersMatch => FailedWith(c, "INVALID_APP_IDENTIFIER")
         /\ (identifiersMatch /\ Get(sub, "environment") = Str(environment)) =>
              calls[c].result = Returned(PayloadOf(c))

C27_Witness ==
  \E c \in DoneCalls :
    /\ calls[c].entry = "verifyAndDecodeNotification"
    /\ Verified(c)
    /\ environment = PRODUCTION
    /\ Get(Get(PayloadOf(c), "data"), "bundleId") = bundleId
    /\ Truthy(Get(PayloadOf(c), "summary"))
    /\ Get(Get(PayloadOf(c), "summary"), "bundleId") # bundleId
    /\ Get(Get(PayloadOf(c), "summary"), "environment") # Str(environment)
    /\ calls[c].result = Returned(PayloadOf(c))

\* the entry points that compare an app identifier
ChecksIdentifiers ==
  {"verifyAndDecodeTransaction", "verifyAndDecodeNotification",
   "verifyAndDecodeAppTransaction"}

\* C28: in verifyAndDecodeTransaction, verifyAndDecodeNotification and
\* verifyAndDecodeAppTransaction, a payload that verifyJWT returned and that
\* mismatches both the configured identifiers (the bundleId or, in PRODUCTION
\* for the latter two, the appAppleId) and the configured environment fails
\* with INVALID_APP_IDENTIFIER, never with INVALID_ENVIRONMENT.
C28_IdentifierCheckedBeforeEnvironment ==
  \A c \in DoneCalls :
    (calls[c].entry \in ChecksIdentifiers /\ Verified(c)
       /\ ~IdentifiersMatch(c) /\ ~EnvironmentMatches(c)) =>
      FailedWith(c, "INVALID_APP_IDENTIFIER")

C28_Witness ==
  \E c \in DoneCalls :
    /\ calls[c].entry = "verifyAndDecodeAppTransaction"
    /\ Verified(c)
    /\ environment = PRODUCTION
    /\ Get(PayloadOf(c), "bundleId") = bundleId
    /\ Get(PayloadOf(c), "appAppleId") # appAppleId
    /\ Get(PayloadOf(c), "receiptType") = Str(SANDBOX)
    /\ FailedWith(c, "INVALID_APP_IDENTIFIER")

\* the input of call c has a middle part that decodes to a JSON value other
\* than null in which none of data, summary, externalPurchaseToken is populated
NothingPopulated(c) ==
  LET parts == Split(calls[c].jwt) IN
  /\ NumParts(calls[c].jwt) = 3
  /\ ~Base64UrlDecodeThrows(parts[2])
  /\ ~JSONParseThrows(parts[2])
  /\ ~AccessThrows(PayloadOf(c))
  /\ Populated(PayloadOf(c)) = 0

\* C29: for every configuration, verifyAndDecodeNotification never returns a
\* payload in which none of data, summary and externalPurchaseToken is
\* populated; when verifyJWT returned such a payload (in XCODE and
\* LOCAL_TESTING: whenever the validator accepted it) the call fails with
\* INVALID_APP_IDENTIFIER.
C29_UnpopulatedNotificationIsRejected ==
  \A c \in DoneCalls :
    (calls[c].entry = "verifyAndDecodeNotification" /\ NothingPopulated(c)) =>
      /\ calls[c].result.kind = "throw"
      /\ Verified(c) => FailedWith(c, "INVALID_APP_IDENTIFIER")
      /\ (UnsignedEnvironment /\ WellFormedPayload(c)) =>
           FailedWith(c, "INVALID_APP_IDENTIFIER")

C29_Witness ==
  \E c \in DoneCalls :
    /\ calls[c].entry = "verifyAndDecodeNotification"
    /\ NothingPopulated(c)
    /\ SignedEnvironment
    /\ Get(PayloadOf(c), "notificationUUID") = Str("uuid")
    /\ Verified(c)
    /\ FailedWith(c, "INVALID_APP_IDENTIFIER")

\* in this step the chain validation of some call resolves with a key
ChainValidationSucceeds ==
  \E c \in DOMAIN calls :
    /\ calls[c].pc = "verifyCertificateChain"
    /\ calls'[c].pc = "verifyJWT"
    /\ calls'[c].jwtResult.kind = "return"

\* C24: once the verifier is constructed, no step of any call, successful or
\* failing, changes rootCertificates, enableOnlineChecks, environment,
\* bundleId or appAppleId; the public-key cache changes at most in a step in
\* which a chain validation succeeds, so a call that fails before or during
\* chain validation, or that runs in XCODE or LOCAL_TESTING, leaves it as it
\* was.
C24_CallsChangeOnlyTheCache ==
  [][constructed = "yes" =>
       /\ UNCHANGED config
       /\ verifiedPublicKeyCache' # verifiedPublicKeyCache =>
            (SignedEnvironment /\ ChainValidationSucceeds)]_vars

C24_Witness ==
  \E c \in DoneCalls :
    /\ UnsignedEnvironment
    /\ WellFormedPayload(c)
    /\ calls[c].result = Returned(PayloadOf(c))
    /\ rootCertificates = {"AppleRoot"}
    /\ bundleId = Example
    /\ verifiedPublicKeyCache = {}

AloneResult(entry, jwt) ==
  LET r == verifyJWTStart(environment, rootCertificates, jwt, Shape(entry))
      jwtResult ==
        IF r.kind = "await"
        THEN verifyJWTResume(verifyCertificateChainResult(r.args), r.value)
        ELSE [kind |-> r.kind, exc |-> r.exc, value |-> r.value]
  IN IF jwtResult.kind = "throw" THEN jwtResult
     ELSE IdentityChecks(entry, jwtResult.value)

\* calls c and d were in flight at the same time: neither had settled when
\* the other was made
Overlapped(c, d) ==
  /\ c # d
  /\ calls[c].pc # "idle" /\ calls[d].pc # "idle"
  /\ c \notin calls[d].settledBefore
  /\ d \notin calls[c].settledBefore

\* C25: however the calls in flight interleave at the await of the chain
\* validation, every settled call has the outcome it has when run alone on
\* its own input, and the cache holds no more than MAXIMUM_CACHE_SIZE entries.
C25_InterleavedCallsAreIndependent ==
  /\ \A c \in DoneCalls : calls[c].result = AloneResult(calls[c].entry, calls[c].jwt)
  /\ Cardinality(verifiedPublicKeyCache) <= MAXIMUM_CACHE_SIZE

C25_Witness ==
  \E c \in DoneCalls, d \in DoneCalls :
    /\ Overlapped(c, d)
    /\ InvokedChainValidation(c) /\ InvokedChainValidation(d)
    /\ calls[c].result.kind = "return"
    /\ FailedWith(d, "INVALID_APP_IDENTIFIER")
    /\ calls[c].result = AloneResult(calls[c].entry, calls[c].jwt)
    /\ calls[d].result = AloneResult(calls[d].entry, calls[d].jwt)

\* the body of the response parses to a value with a truthy errorCode
HasErrorCode(response) ==
  /\ response.body.json
  /\ ~AccessThrows(response.body.val)
  /\ Truthy(Get(response.body.val, "errorCode"))

\* C30: a settled makeRequest that received a response that is not OK threw
\* an APIException whose httpStatusCode is the status of the response; the
\* exception carries the errorCode and errorMessage of the body when the body
\* parses and has a truthy errorCode, and no error code when the body does
\* not parse or has no errorCode.  For an OK response it returned null
\* without reading the body when it had no validator, returned the parsed
\* body when the validator accepted it, and threw when the validator
\* rejected it.
C30_MakeRequestOutcomes ==
  (request.pc = "done" /\ request.received) =>
    LET response == request.response
        result == request.result
    IN
    /\ ~response.ok =>
         /\ result.kind = "throw"
         /\ result.exc.class = "APIException"
         /\ result.exc.httpStatusCode = response.status
         /\ HasErrorCode(response) =>
              /\ result.exc.apiError = Get(response.body.val, "errorCode")
              /\ Get(response.body.val, "errorMessage") # Undefined =>
                   result.exc.errorMessage = Get(response.body.val, "errorMessage")
         /\ (~response.body.json \/ AccessThrows(response.body.val)
             \/ Get(response.body.val, "errorCode") = Undefined) =>
              result.exc.apiError = Null
    /\ (response.ok /\ request.validator = Null) =>
         result = Returned(Null) /\ ~request.bodyUsed
    /\ (response.ok /\ request.validator # Null /\ response.body.json
        /\ ValidateResponse(request.validator, response.body.val) = "true") =>
         result = Returned(response.body.val)
    /\ (response.ok /\ request.validator # Null /\ response.body.json
        /\ ValidateResponse(request.validator, response.body.val) = "false") =>
         result.kind = "throw"

C30_Witness ==
  /\ request.pc = "done" /\ request.received
  /\ request.response.status = 404
  /\ HasErrorCode(request.response)
  /\ request.result.kind = "throw"
  /\ request.result.exc =
       APIException(404, Num("4040010"), Str("Transaction id not found."))

====
